---- MODULE Spec2Model ----
(***************************************************************************)
(* Model of the camera-app backend (src/backend/index.js): the in-memory   *)
(* photos index, the files on disk, and the upload / list / fetch / delete *)
(* request handlers, with multer's disk storage engine and express'        *)
(* error middleware as they are configured in that file.                   *)
(***************************************************************************)
EXTENDS Integers, Sequences, FiniteSets

----------------------------------------------------------------------------
(* Bounds of the model *)

\* Date.now() runs over StartTime..MaxTime
MaxTime == 2
\* Math.round(Math.random() * 1E9) runs over 0..MaxRand
MaxRand == 1
\* number of uploads stored in one run (records pushed and uploads in flight)
MaxUploads == 2
\* number of upload requests whose body is being received at the same time
MaxInflight == 1

\* the clock value when the process starts (a real clock is never 0)
StartTime == 1

----------------------------------------------------------------------------
(* Paths.  A path is a sequence of segments; a segment is either a literal *)
(* name or a generated photo name 'photo-<t>-<r>.jpg'.                      *)

Lit(s) == [s |-> s, t |-> -1, r |-> -1]

\* storage.filename: 'photo-' + Date.now() + '-' + Math.round(Math.random() * 1E9) + '.jpg'
GenFilename(t, r) == [s |-> "photo.jpg", t |-> t, r |-> r]

Up == Lit("..")

\* path.normalize on an absolute path: '..' removes the segment before it,
\* and is dropped at the root
RECURSIVE NormalizeFrom(_, _)
NormalizeFrom(done, rest) ==
    IF rest = <<>> THEN done
    ELSE IF Head(rest) = Up
         THEN NormalizeFrom(IF done = <<>> THEN <<>> ELSE SubSeq(done, 1, Len(done) - 1),
                            Tail(rest))
         ELSE NormalizeFrom(Append(done, Head(rest)), Tail(rest))

\* path.join(a, b): concatenate, then normalize
PathJoin(a, b) == NormalizeFrom(<<>>, a \o b)

DirOf(p) == SubSeq(p, 1, Len(p) - 1)

\* the repository root and the directory of backend/index.js
RepoRoot == <<Lit("app")>>
DirName == <<Lit("app"), Lit("backend")>>

\* const uploadsDir = path.join(__dirname, 'uploads')
uploadsDir == PathJoin(DirName, <<Lit("uploads")>>)

\* the file backend/index.js itself
ServerSource == PathJoin(DirName, <<Lit("index.js")>>)

----------------------------------------------------------------------------
(* Blobs, media types and requests *)

\* limits.fileSize
fileSize == 10 * 1024 * 1024

Blobs == { [data |-> "A", size |-> 1],
           [data |-> "C", size |-> fileSize + 1] }
NoBlob == [data |-> "", size |-> 0]

Mime(type, subtype) == [type |-> type, subtype |-> subtype]
\* a file part that declares no Content-Type
MissingMime == Mime("", "")
DeclaredMimes == { Mime("image", "jpeg"), Mime("text", "plain"), MissingMime }

\* the multipart parser gives a file part without Content-Type the type text/plain
PartMimetype(declared) == IF declared = MissingMime THEN Mime("text", "plain") ELSE declared

\* file.mimetype.startsWith('image/')
StartsWithImage(m) == m.type = "image"

FileFilterAcceptsAll(m) == TRUE

\* fileFilter: accept exactly the parts whose mimetype starts with 'image/'
FileFilter(m) == StartsWithImage(m)

\* a request with no file part
NoFileRequest == [hasFile |-> FALSE, fieldname |-> "", mimetype |-> MissingMime,
                  originalname |-> "", blob |-> NoBlob]

FileRequest(fieldname, mimetype, blob) ==
    [hasFile |-> TRUE, fieldname |-> fieldname, mimetype |-> mimetype,
     originalname |-> "photo.jpg", blob |-> blob]

\* the requests with one file part: every blob as image/jpeg under 'photo',
\* the small blob under every other declared type, and under another field
SmallBlob == [data |-> "A", size |-> 1]
FileRequests ==
    { FileRequest("photo", Mime("image", "jpeg"), b) : b \in Blobs }
        \cup { FileRequest("photo", m, SmallBlob) : m \in DeclaredMimes }
        \cup { FileRequest("file", Mime("image", "jpeg"), SmallBlob) }

----------------------------------------------------------------------------
(* State *)

VARIABLES
    cwd,        \* process.cwd(): where relative paths such as 'uploads/' resolve
    dirs,       \* the directories that exist
    disk,       \* the files that exist: path -> [data, len]
    photos,     \* let photos = []
    now,        \* Date.now()
    inflight,   \* upload requests whose file part multer is storing
    resp,       \* the response the last step sent, NoResp when it sent none
    created,    \* history: every record ever pushed, in push order
    removed,    \* history: serials of the records removed by a delete
    race        \* two DELETE requests for one id that are being served together

vars == <<cwd, dirs, disk, photos, now, inflight, resp, created, removed, race>>

NoFile == [data |-> "", len |-> 0]
NoPhoto == [id |-> -1, filename |-> Lit(""), url |-> <<>>, timestamp |-> [iso |-> -1]]

NoResp == [op |-> "none", status |-> 0, message |-> "",
           req |-> NoFileRequest, idParam |-> <<>>, nameParam |-> <<>>,
           photo |-> NoPhoto, count |-> 0, list |-> <<>>,
           bytes |-> NoFile, readPath |-> <<>>, upPath |-> <<>>]

\* no two such requests are being served
NoRace == [phase |-> "idle", param |-> <<>>, status |-> <<0, 0>>, target |-> 0,
           pushes |-> 0, removedByRace |-> {}]

\* res.status(...).json(...): one response per request
Reply(op, status, message) ==
    [NoResp EXCEPT !.op = op, !.status = status,
                   !.message = message]

\* fs resolves a relative path against the working directory
FsResolve(rel) == PathJoin(cwd, rel)

\* fs.existsSync: true of a file and of a directory
ExistsSync(p) == p \in DOMAIN disk \/ p \in dirs

WriteFile(d, p, f) == [q \in DOMAIN d \cup {p} |-> IF q = p THEN f ELSE d[q]]
Unlink(d, p) == [q \in DOMAIN d \ {p} |-> d[q]]

\* new Date().toISOString()
ToISOString(t) == [iso |-> t]

\* `/api/photos/${photo.filename}`
PhotoUrl(filename) == <<Lit("api"), Lit("photos"), filename>>

Init ==
    /\ cwd \in {DirName, RepoRoot}
    \* lines 20-23 create __dirname/uploads; <cwd>/uploads is only there if
    \* someone made it
    /\ \E made \in BOOLEAN :
          dirs = {<<>>, RepoRoot, DirName, uploadsDir}
                   \cup (IF made THEN {PathJoin(cwd, <<Lit("uploads")>>)} ELSE {})
    /\ disk = WriteFile(<<>>, ServerSource, [data |-> "index.js", len |-> 1])
    /\ photos = <<>>
    /\ now = StartTime
    /\ inflight = {}
    /\ resp = NoResp
    /\ created = <<>>
    /\ removed = {}
    /\ race = NoRace

\* the clock advances
Tick ==
    /\ now < MaxTime
    /\ now' = now + 1
    /\ resp' = NoResp
    /\ UNCHANGED <<cwd, dirs, disk, photos, inflight, created, removed, race>>

----------------------------------------------------------------------------
(* GET /api/photos *)

Projection(photo) ==
    [id |-> photo.id, filename |-> photo.filename, originalName |-> photo.originalName,
     url |-> PhotoUrl(photo.filename), timestamp |-> photo.timestamp]

ListPhotos ==
    /\ resp' = [Reply("list", 200, "") EXCEPT
                    !.count = Len(photos),
                    !.list = [i \in 1..Len(photos) |-> Projection(photos[i])]]
    /\ UNCHANGED <<cwd, dirs, disk, photos, now, inflight, created, removed, race>>

----------------------------------------------------------------------------
(* POST /api/upload: upload.single('photo'), then the handler.              *)
(* multer looks at each file part as its header arrives: a part under      *)
(* another field name is an error (LIMIT_UNEXPECTED_FILE), then fileFilter *)
(* decides, then the disk storage engine opens                             *)
(* path.join(destination, filename) for writing and pipes the part into    *)
(* it.  The parser cuts the part off at limits.fileSize bytes and reports  *)
(* the limit; multer then removes the file it stored and passes            *)
(* LIMIT_FILE_SIZE to the error middleware.                                *)

Min(a, b) == IF a < b THEN a ELSE b

\* destination 'uploads/' joined with the generated filename (req.file.path)
FilePath(filename) == <<Lit("uploads"), filename>>

\* the smallest request slot not in use
FreeRid == CHOOSE n \in 1..(MaxInflight + 1) : \A u \in inflight : u.rid # n

\* the error handling middleware: status and message for an error passed to next()
ErrorStatus(isMulterError, code) ==
    IF isMulterError /\ code = "LIMIT_FILE_SIZE" THEN 400 ELSE 500
ErrorMessage(isMulterError, code, message) ==
    IF isMulterError /\ code = "LIMIT_FILE_SIZE"
    THEN "File too large. Maximum size is 10MB." ELSE message

\* the request carries no file part: req.file is undefined
UploadNoFile ==
    /\ resp' = [Reply("upload", 400, "No file uploaded") EXCEPT !.req = NoFileRequest]
    /\ UNCHANGED <<cwd, dirs, disk, photos, now, inflight, created, removed, race>>

\* a file part under a field name other than 'photo'
UploadUnexpectedField(req) ==
    /\ req.hasFile /\ req.fieldname # "photo"
    /\ resp' = [Reply("upload", ErrorStatus(TRUE, "LIMIT_UNEXPECTED_FILE"),
                      ErrorMessage(TRUE, "LIMIT_UNEXPECTED_FILE", "Unexpected field"))
                  EXCEPT !.req = req]
    /\ UNCHANGED <<cwd, dirs, disk, photos, now, inflight, created, removed, race>>

\* fileFilter answers cb(new Error('Only image files are allowed!'), false)
UploadFiltered(req) ==
    /\ req.hasFile /\ req.fieldname = "photo"
    /\ ~FileFilter(PartMimetype(req.mimetype))
    /\ resp' = [Reply("upload", ErrorStatus(FALSE, ""),
                      ErrorMessage(FALSE, "", "Only image files are allowed!"))
                  EXCEPT !.req = req]
    /\ UNCHANGED <<cwd, dirs, disk, photos, now, inflight, created, removed, race>>

\* fs.createWriteStream fails: the directory <cwd>/uploads does not exist
UploadOpenFail(req, rnd) ==
    /\ req.hasFile /\ req.fieldname = "photo"
    /\ FileFilter(PartMimetype(req.mimetype))
    /\ DirOf(FsResolve(FilePath(GenFilename(now, rnd)))) \notin dirs
    /\ resp' = [Reply("upload", ErrorStatus(FALSE, ""),
                      ErrorMessage(FALSE, "", "ENOENT: no such file or directory"))
                  EXCEPT !.req = req]
    /\ UNCHANGED <<cwd, dirs, disk, photos, now, inflight, created, removed, race>>

\* the storage engine names the file, opens it for writing (an existing
\* file of that name is truncated) and pipes the part into it; at most
\* limits.fileSize bytes of the part arrive, and a longer part raises 'limit'
UploadStore(req, rnd) ==
    /\ req.hasFile /\ req.fieldname = "photo"
    /\ FileFilter(PartMimetype(req.mimetype))
    /\ Cardinality(inflight) < MaxInflight
    /\ Len(created) + Cardinality(inflight) < MaxUploads
    /\ LET filename == GenFilename(now, rnd)
           p == FsResolve(FilePath(filename))
       IN /\ DirOf(p) \in dirs
          /\ disk' = WriteFile(disk, p, [data |-> req.blob.data,
                                         len |-> Min(req.blob.size, fileSize)])
          /\ inflight' = inflight \cup
                 {[rid |-> FreeRid, req |-> req, filename |-> filename,
                   path |-> FilePath(filename),
                   aborting |-> (req.blob.size > fileSize)]}
    /\ resp' = NoResp
    /\ UNCHANGED <<cwd, dirs, photos, now, created, removed, race>>

\* the write stream reports an error (disk full) after the file was opened:
\* multer passes the error on and removes the files it had stored
\* completely, which this one is not
UploadStoreError(req, rnd) ==
    /\ req.hasFile /\ req.fieldname = "photo"
    /\ FileFilter(PartMimetype(req.mimetype))
    /\ Len(created) + Cardinality(inflight) < MaxUploads
    /\ LET p == FsResolve(FilePath(GenFilename(now, rnd)))
       IN /\ DirOf(p) \in dirs
          /\ disk' = WriteFile(disk, p, NoFile)
          /\ resp' = [Reply("upload", ErrorStatus(FALSE, ""),
                            ErrorMessage(FALSE, "", "ENOSPC: no space left on device"))
                        EXCEPT !.req = req, !.upPath = p]
    /\ UNCHANGED <<cwd, dirs, photos, now, inflight, created, removed, race>>

\* the part was longer than limits.fileSize: multer unlinks the file it
\* stored (the unlink can fail) and the error middleware answers
UploadAbort(u, unlinkFails) ==
    /\ u \in inflight /\ u.aborting
    /\ LET p == FsResolve(u.path)
       IN disk' = IF p \in DOMAIN disk /\ ~unlinkFails THEN Unlink(disk, p) ELSE disk
    /\ inflight' = inflight \ {u}
    /\ resp' = [Reply("upload", ErrorStatus(TRUE, "LIMIT_FILE_SIZE"),
                      ErrorMessage(TRUE, "LIMIT_FILE_SIZE", "File too large"))
                  EXCEPT !.req = u.req, !.upPath = FsResolve(u.path)]
    /\ UNCHANGED <<cwd, dirs, photos, now, created, removed, race>>

\* the record the handler builds from req.file (serial and data are history:
\* the position of the push among all pushes, and the bytes of the part)
PhotoData(u) ==
    [id |-> now, filename |-> u.filename, originalName |-> u.req.originalname,
     path |-> u.path, size |-> Min(u.req.blob.size, fileSize),
     mimetype |-> PartMimetype(u.req.mimetype), timestamp |-> ToISOString(now),
     serial |-> Len(created) + 1, data |-> u.req.blob.data]

Unshift(ps, photoData) == <<photoData>> \o ps

\* photos.push(photoData)
Push(ps, photoData) == Append(ps, photoData)

\* the file is stored: the handler runs, pushes the record and answers
UploadFinish(u) ==
    /\ u \in inflight /\ ~u.aborting
    /\ LET photoData == PhotoData(u)
       IN /\ photos' = Push(photos, photoData)
          /\ created' = Append(created, photoData)
          /\ resp' = [Reply("upload", 200, "Photo uploaded successfully") EXCEPT
                         !.req = u.req, !.upPath = FsResolve(u.path),
                         !.photo = [id |-> photoData.id, filename |-> photoData.filename,
                                    url |-> PhotoUrl(photoData.filename),
                                    timestamp |-> photoData.timestamp]]
    /\ inflight' = inflight \ {u}
    /\ UNCHANGED <<cwd, dirs, disk, now, removed, race>>

----------------------------------------------------------------------------
(* GET /api/photos/:filename *)

\* req.params.filename: express matches one raw URL segment and decodes
\* it, so an encoded separator (%2F) arrives as a separator; the parameter
\* is here the sequence of segments of the decoded string
IssuableNames == { <<GenFilename(t, r)>> : t \in StartTime..MaxTime, r \in 0..MaxRand }
FetchParams == IssuableNames \cup { <<Up, Lit("index.js")>>, <<Up>> }

FetchPhoto(filename) ==
    LET photoPath == PathJoin(uploadsDir, filename)
    IN /\ resp' =
            IF ExistsSync(photoPath)
            THEN IF photoPath \in DOMAIN disk
                 \* res.sendFile(photoPath)
                 THEN [Reply("fetch", 200, "") EXCEPT
                          !.nameParam = filename, !.bytes = disk[photoPath],
                          !.readPath = photoPath]
                 \* sendFile of a directory passes on to the 404 handler
                 ELSE [Reply("fetch", 404, "Route not found") EXCEPT
                          !.nameParam = filename]
            ELSE [Reply("fetch", 404, "Photo not found") EXCEPT !.nameParam = filename]
       /\ UNCHANGED <<cwd, dirs, disk, photos, now, inflight, created, removed, race>>

----------------------------------------------------------------------------
(* DELETE /api/photos/:id *)

DigitChars == <<"0", "1", "2", "3", "4", "5", "6", "7", "8", "9">>
IsDigit(c) == \E i \in 1..Len(DigitChars) : DigitChars[i] = c
DigitValue(c) == (CHOOSE i \in 1..Len(DigitChars) : DigitChars[i] = c) - 1

NaN == [nan |-> TRUE, n |-> 0]
Num(n) == [nan |-> FALSE, n |-> n]

\* parseInt(string): the number its leading decimal digits spell, NaN when
\* it starts with no digit
RECURSIVE ParseDigits(_, _)
ParseDigits(s, acc) ==
    IF s = <<>> \/ ~IsDigit(Head(s)) THEN acc
    ELSE ParseDigits(Tail(s), 10 * acc + DigitValue(Head(s)))
ParseInt(s) == IF s = <<>> \/ ~IsDigit(Head(s)) THEN NaN ELSE Num(ParseDigits(s, 0))

\* photo.id === id, for a number photo.id and a parsed id (NaN equals nothing)
StrictEquals(photoId, id) == ~id.nan /\ photoId = id.n

FindIndexOrLast(ps, id) ==
    IF \E i \in 1..Len(ps) : StrictEquals(ps[i].id, id)
    THEN CHOOSE i \in 1..Len(ps) :
            /\ StrictEquals(ps[i].id, id)
            /\ \A j \in 1..(i - 1) : ~StrictEquals(ps[j].id, id)
    ELSE IF ps = <<>> THEN -1 ELSE Len(ps)

\* photos.findIndex(photo => photo.id === id): the first index (from 1 here)
\* whose record has the id, -1 when there is none
FindIndex(ps, id) ==
    IF \E i \in 1..Len(ps) : StrictEquals(ps[i].id, id)
    THEN CHOOSE i \in 1..Len(ps) :
            /\ StrictEquals(ps[i].id, id)
            /\ \A j \in 1..(i - 1) : ~StrictEquals(ps[j].id, id)
    ELSE -1

SpliceKeeps(ps, i) == ps

\* photos.splice(photoIndex, 1)
Splice(ps, i) == SubSeq(ps, 1, i - 1) \o SubSeq(ps, i + 1, Len(ps))

\* the ids a client may send: every clock value, 0, a word, a number
\* followed by a letter
DeleteParams == { <<DigitChars[t + 1]>> : t \in 0..MaxTime }
                    \cup { <<"a">>, <<DigitChars[StartTime + 1], "a">> }

\* the handler: it runs from its first line to its answer without yielding
DeleteHandler(param, unlinkFails) ==
    LET id == ParseInt(param)
        photoIndex == FindIndex(photos, id)
    IN IF photoIndex = -1
       THEN /\ resp' = [Reply("delete", 404, "Photo not found") EXCEPT !.idParam = param]
            /\ UNCHANGED <<cwd, dirs, disk, photos, now, inflight, created, removed>>
       ELSE LET photo == photos[photoIndex]
                p == FsResolve(photo.path)
            IN \* unlinkSync may throw; the error is logged and dropped
               /\ disk' = IF p \in DOMAIN disk /\ ~unlinkFails THEN Unlink(disk, p) ELSE disk
               /\ photos' = Splice(photos, photoIndex)
               /\ removed' = removed \cup {photo.serial}
               /\ resp' = [Reply("delete", 200, "Photo deleted successfully") EXCEPT
                              !.idParam = param]
               /\ UNCHANGED <<cwd, dirs, now, inflight, created>>

\* one DELETE request served on its own
DeletePhoto(param, unlinkFails) ==
    /\ DeleteHandler(param, unlinkFails)
    /\ UNCHANGED race

----------------------------------------------------------------------------

Next ==
    \/ Tick
    \/ ListPhotos
    \/ UploadNoFile
    \/ \E req \in FileRequests : UploadUnexpectedField(req)
    \/ \E req \in FileRequests : UploadFiltered(req)
    \/ \E req \in FileRequests, rnd \in 0..MaxRand : UploadOpenFail(req, rnd)
    \/ \E req \in FileRequests, rnd \in 0..MaxRand : UploadStore(req, rnd)
    \/ \E req \in FileRequests, rnd \in 0..MaxRand : UploadStoreError(req, rnd)
    \/ \E u \in inflight, unlinkFails \in BOOLEAN : UploadAbort(u, unlinkFails)
    \/ \E u \in inflight : UploadFinish(u)
    \/ \E filename \in FetchParams : FetchPhoto(filename)
    \/ \E param \in DeleteParams, unlinkFails \in BOOLEAN : DeletePhoto(param, unlinkFails)

Spec == Init /\ [][Next]_vars

----------------------------------------------------------------------------
(* Two DELETE /api/photos/:id requests with the same id served together.   *)
(* Both have arrived before either handler runs; the handlers then run in  *)
(* either order, each as one step, with other requests served in between.  *)

\* the two requests arrive while exactly one live record has the id
RaceStart(param) ==
    /\ race.phase = "idle"
    /\ Cardinality({ i \in 1..Len(photos) : StrictEquals(photos[i].id, ParseInt(param)) }) = 1
    /\ race' = [phase |-> "racing", param |-> param, status |-> <<0, 0>>,
                target |-> photos[FindIndex(photos, ParseInt(param))].serial,
                pushes |-> Len(created), removedByRace |-> {}]
    /\ resp' = NoResp
    /\ UNCHANGED <<cwd, dirs, disk, photos, now, inflight, created, removed>>

\* the handler of request k runs
RaceHandle(k, unlinkFails) ==
    /\ race.phase = "racing" /\ race.status[k] = 0
    /\ DeleteHandler(race.param, unlinkFails)
    /\ race' = [race EXCEPT
                   !.status[k] = resp'.status,
                   !.removedByRace = @ \cup (removed' \ removed),
                   !.phase = IF race.status[3 - k] # 0 THEN "done" ELSE "racing"]

\* requests that only answer (list, fetch, rejected uploads) change nothing a
\* delete reads and are left out
NextRace ==
    \/ Tick
    \/ \E req \in FileRequests, rnd \in 0..MaxRand : UploadStore(req, rnd)
    \/ \E req \in FileRequests, rnd \in 0..MaxRand : UploadStoreError(req, rnd)
    \/ \E u \in inflight, unlinkFails \in BOOLEAN : UploadAbort(u, unlinkFails)
    \/ \E u \in inflight : UploadFinish(u)
    \/ \E param \in DeleteParams, unlinkFails \in BOOLEAN : DeletePhoto(param, unlinkFails)
    \/ \E param \in DeleteParams : RaceStart(param)
    \/ \E k \in {1, 2}, unlinkFails \in BOOLEAN : RaceHandle(k, unlinkFails)

SpecRace == Init /\ [][NextRace]_vars

----------------------------------------------------------------------------
(* Properties *)

HasId(photo, param) == StrictEquals(photo.id, ParseInt(param))
LiveWithId(param) == { i \in 1..Len(photos) : HasId(photos[i], param) }

\* C1: when DELETE /api/photos/:id answers success, no record of the index
\* has that id right afterwards, whatever uploads and deletes came before
\* (uploads in the same millisecond included)
C1_DeletedIdIsGone ==
    (resp.op = "delete" /\ resp.status = 200) => LiveWithId(resp.idParam) = {}

IssuedNames == { <<created[i].filename>> : i \in 1..Len(created) }

\* C2: a fetch of a filename no successful upload of this run returned
\* answers not-found and reads no file outside the uploads directory
C2_UnissuedNameNotFound ==
    (resp.op = "fetch" /\ resp.nameParam \notin IssuedNames)
        => /\ resp.status = 404
           /\ resp.readPath = <<>>

\* C3: an upload whose file part declares a media type that does not begin
\* with "image/" is rejected, and the step that answers it leaves the photos
\* index and the files on disk as they were
C3_NonImageRejected ==
    [][ (resp'.op = "upload" /\ resp'.req.hasFile
            /\ ~StartsWithImage(resp'.req.mimetype))
        => /\ resp'.status >= 400
           /\ photos' = photos
           /\ disk' = disk
           /\ inflight' = inflight ]_vars

C3_Witness ==
    /\ resp.op = "upload" /\ resp.req.hasFile /\ resp.req.fieldname = "photo"
    /\ resp.req.mimetype = Mime("text", "plain")
    /\ resp.status = 500
    /\ resp.message = "Only image files are allowed!"
    /\ Len(photos) > 0

HoldsBytesOf(p, blob) ==
    p \in DOMAIN disk /\ disk[p].data = blob.data /\ disk[p].len > 0

\* C4: while and after an upload of a blob larger than 10 MiB is handled,
\* the storage directory holds no bytes of that blob
C4_OversizeNeverOnDisk ==
    /\ \A u \in inflight :
          u.req.blob.size > fileSize => ~HoldsBytesOf(FsResolve(u.path), u.req.blob)
    /\ (resp.op = "upload" /\ resp.req.blob.size > fileSize /\ resp.upPath # <<>>)
          => (resp.status >= 400 /\ ~HoldsBytesOf(resp.upPath, resp.req.blob))

FailsValidation(req) ==
    \/ ~req.hasFile
    \/ req.fieldname # "photo"
    \/ ~StartsWithImage(req.mimetype)
    \/ req.blob.size > fileSize

\* C5: an upload that fails validation (no part named "photo", a media type
\* missing or not beginning with "image/", a blob over 10 MiB) is answered
\* with a 4xx status and a message
C5_ValidationIsClientError ==
    (resp.op = "upload" /\ FailsValidation(resp.req))
        => (resp.status >= 400 /\ resp.status <= 499 /\ resp.message # "")

\* C6: a fetch of the filename of a live record uploaded as image/jpeg
\* answers success with exactly the bytes uploaded
C6_RoundTrip ==
    resp.op = "fetch" =>
        \A i \in 1..Len(photos) :
            (<<photos[i].filename>> = resp.nameParam
                /\ photos[i].mimetype = Mime("image", "jpeg"))
            => /\ resp.status = 200
               /\ resp.bytes = [data |-> photos[i].data, len |-> photos[i].size]

IsLive(photo) == photo.serial \notin removed
LiveInOrder == SelectSeq(created, IsLive)

C8_FilenamesUnique ==
    \A i, j \in 1..Len(created) :
        i # j => created[i].filename # created[j].filename

\* C9: DELETE /api/photos/:id for an id no live record has answers
\* not-found, and the step leaves the photos index and the files on disk as
\* they were
C9_DeleteUnknownId ==
    [][ (resp'.op = "delete" /\ LiveWithId(resp'.idParam) = {})
        => /\ resp'.status = 404
           /\ photos' = photos
           /\ disk' = disk ]_vars

C9_Witness ==
    /\ resp.op = "delete" /\ resp.status = 404
    /\ resp.idParam \in {<<"0">>, <<"a">>}
    /\ Len(photos) > 0
    /\ \E i \in 1..Len(photos) : FsResolve(photos[i].path) \in DOMAIN disk

OwnedPaths ==
    { FsResolve(photos[i].path) : i \in 1..Len(photos) }
        \cup { FsResolve(u.path) : u \in inflight }

\* C10: once an upload request is answered, either it succeeded and its file
\* and its record both exist, or it failed and no file of it is on disk
\* without a record
C10_UploadIsOneUnit ==
    (resp.op = "upload" /\ resp.upPath # <<>>)
        => IF resp.status = 200
           THEN \E i \in 1..Len(photos) : FsResolve(photos[i].path) = resp.upPath
           ELSE resp.upPath \in DOMAIN disk => resp.upPath \in OwnedPaths

DeletedNames == { <<created[i].filename>> : i \in { j \in 1..Len(created) : ~IsLive(created[j]) } }
LiveNames == { <<photos[i].filename>> : i \in 1..Len(photos) }

\* C11: a fetch of a filename whose record a successful delete removed (and
\* that no live record has) answers not-found, also when the file is still
\* on disk because its unlink failed
C11_DeletedNameNotFound ==
    (resp.op = "fetch" /\ resp.nameParam \in DeletedNames \ LiveNames)
        => resp.status = 404

\* during the race no other request pushed a record with the id or deleted
\* the record the two requests are after
RaceUndisturbed ==
    /\ \A i \in (race.pushes + 1)..Len(created) : ~HasId(created[i], race.param)
    /\ race.target \in removed => race.target \in race.removedByRace

\* C12: of two DELETE requests with one id served together while exactly one
\* live record has the id, in either order one answers success and the other
\* not-found, and together they remove that record and no other
C12_RaceOneWinner ==
    (race.phase = "done" /\ RaceUndisturbed)
        => /\ { race.status[1], race.status[2] } = {200, 404}
           /\ race.removedByRace = {race.target}
           /\ \A i \in 1..Len(photos) : photos[i].serial # race.target

C12_Witness ==
    /\ race.phase = "done" /\ RaceUndisturbed
    /\ race.status = <<404, 200>>
    /\ Len(photos) > 0
    /\ Len(created) = race.pushes

====
